---------------------------- MODULE Spec2Model ----------------------------
(***************************************************************************)
(* Model of src/app.py: the /predict handler of the forest-fire risk       *)
(* service, with its helpers estimate_fire_indexes, score_to_bucket and    *)
(* encode_month_day.                                                       *)
(*                                                                         *)
(* Numbers.  Every Python float or int that carries a quantity is kept as  *)
(* an integer number of hundredths (33.1 is 3310), so that the literals of *)
(* the source (18.7, 96.2, 0.15, ...) are exact.  NaN is a value of its    *)
(* own: float("nan") and the JSON literal NaN produce it, and numpy's clip *)
(* and round hand it through.                                              *)
(***************************************************************************)
EXTENDS Integers, Sequences, FiniteSets, TLC

VARIABLES
    model,      \* the object joblib loaded from MODEL_PATH
    le_month,   \* classes_ of the month LabelEncoder, in sorted order
    le_day,     \* classes_ of the day LabelEncoder, in sorted order
    body,       \* the body of the request handled last
    now,        \* what datetime.utcnow() gave (or would give) for it
    resp,       \* the response it got
    calls,      \* the collaborators predict called for it, in order
    model_in,   \* the row predict handed to model.predict for it, <<>> if none
    first,      \* a handling remembered from earlier in the run
    arg,        \* arguments of the last direct estimate_fire_indexes call
    ret         \* what that call returned

vars == <<model, le_month, le_day, body, now, resp, calls, model_in, first, arg, ret>>

(***************************************************************************)
(* JSON / Python values.  t is the kind; n the number in hundredths (kind  *)
(* "num"); s the text (kind "str").                                        *)
(***************************************************************************)
Absent == [t |-> "absent", n |-> 0, s |-> ""]
None   == [t |-> "null",   n |-> 0, s |-> ""]
NaN    == [t |-> "nan",    n |-> 0, s |-> ""]
Num(n) == [t |-> "num", n |-> n, s |-> ""]
Str(s) == [t |-> "str", n |-> 0, s |-> s]

IsNone(v) == v.t = "null"
IsNaN(v)  == v.t = "nan"
IsStr(v)  == v.t = "str"

\* dict.get(key, default): the default only when the key is missing; a key
\* that is present with null gives None.
Get(data, key, default) ==
    IF data[key].t = "absent" THEN default ELSE data[key]

\* A value or an exception.
Ok(v)  == [ok |-> TRUE,  v |-> v]
Raise  == [ok |-> FALSE, v |-> None]

\* Text that float() parses, with what it parses to.
FloatText == [x \in {"nan", "7", "85"} |->
                 CASE x = "nan" -> NaN
                   [] x = "7"   -> Num(700)
                   [] x = "85"  -> Num(8500)]

\* float(v): numbers as they are, text parsed, TypeError on None.
ToFloat(v) ==
    CASE v.t = "num" -> Ok(v)
      [] v.t = "nan" -> Ok(NaN)
      [] v.t = "str" -> IF v.s \in DOMAIN FloatText THEN Ok(FloatText[v.s]) ELSE Raise
      [] OTHER       -> Raise

\* Truncation toward zero of a number of hundredths, in hundredths.
Trunc(n) == IF n >= 0 THEN (n \div 100) * 100 ELSE -(((-n) \div 100) * 100)

\* int(v): truncation toward zero; ValueError on NaN and on text that is no
\* integer literal; TypeError on None.
ToInt(v) ==
    CASE v.t = "num" -> Ok(Num(Trunc(v.n)))
      [] v.t = "str" -> IF v.s \in {"7", "85"} THEN Ok(FloatText[v.s]) ELSE Raise
      [] OTHER       -> Raise

(***************************************************************************)
(* estimate_fire_indexes                                                   *)
(***************************************************************************)
TEMP_MIN == -1000
TEMP_MAX == 6000
RH_MIN   == 0
RH_MAX   == 10000
WIND_MIN == 0
WIND_MAX == 5000
RAIN_MIN == 0
RAIN_MAX == 50000
FFMC_MIN == 1870
FFMC_MAX == 9620
DMC_MIN  == 110
DMC_MAX  == 29130
DC_MIN   == 790
DC_MAX   == 86060
ISI_MIN  == 0
ISI_MAX  == 5610

\* np.clip on plain integers.
ClipInt(x, lo, hi) == IF x < lo THEN lo ELSE IF x > hi THEN hi ELSE x

\* np.clip(v, lo, hi) on a float: minimum(maximum(v, lo), hi), which hands a
\* NaN through.
Clip(v, lo, hi) == IF IsNaN(v) THEN NaN ELSE Num(ClipInt(v.n, lo, hi))

\* n / d rounded to the nearest integer, ties to even (d > 0).
RoundDiv(n, d) ==
    LET q == n \div d
        r == n % d
    IN  IF 2 * r < d THEN q
        ELSE IF 2 * r > d THEN q + 1
        ELSE IF q % 2 = 0 THEN q ELSE q + 1

\* The four heuristics.  t, h, w, r are the clamped inputs in hundredths.
\* FFMCraw is in units of 1/10000; DMCraw and ISIraw in units of 1/300000
\* and DCraw in units of 1/200000, which keeps temp/30 and temp/20 exact.
FFMCraw(t, h, w, r) == ClipInt(200000 + 160 * t - 15 * h + 60 * w - 10 * r,
                               FFMC_MIN * 100, FFMC_MAX * 100)
DMCraw(t, h, w, r)  == ClipInt(300000 + (10000 - h) * t + 1500 * w - 600 * r,
                               DMC_MIN * 3000, DMC_MAX * 3000)
DCraw(t, h, w, r)   == ClipInt(2000000 + (10000 - h) * t + 1400 * w - 100 * r,
                               DC_MIN * 2000, DC_MAX * 2000)
ISIraw(w, ffmc)     == ClipInt(2400 * w + ffmc, ISI_MIN * 3000, ISI_MAX * 3000)

estimate_fire_indexes(temp, rh, wind, rain) ==
    LET t == Clip(temp, TEMP_MIN, TEMP_MAX)
        h == Clip(rh,   RH_MIN,   RH_MAX)
        w == Clip(wind, WIND_MIN, WIND_MAX)
        r == Clip(rain, RAIN_MIN, RAIN_MAX)
        nan == IsNaN(t) \/ IsNaN(h) \/ IsNaN(w) \/ IsNaN(r)
        F == FFMCraw(t.n, h.n, w.n, r.n)
    IN  IF nan
        THEN \* every formula reads all four inputs (ISI through wind and FFMC)
             [FFMC |-> NaN, DMC |-> NaN, DC |-> NaN, ISI |-> NaN]
        ELSE [FFMC |-> Num(RoundDiv(F, 100)),
              DMC  |-> Num(RoundDiv(DMCraw(t.n, h.n, w.n, r.n), 3000)),
              DC   |-> Num(RoundDiv(DCraw(t.n, h.n, w.n, r.n), 2000)),
              ISI  |-> Num(RoundDiv(ISIraw(w.n, F), 3000))]

(***************************************************************************)
(* score_to_bucket                                                         *)
(***************************************************************************)
\* The ladder with strict comparisons.
score_to_bucket_strict(score) ==
    IF score < 3 THEN <<"Low", "green">>
    ELSE IF score < 6 THEN <<"Medium", "yellow">>
    ELSE IF score < 8 THEN <<"High", "orange">>
    ELSE <<"Extreme", "red">>

\* score is an integer (predict passes int(pred)); int(score) is then the
\* identity.
score_to_bucket(score) ==
    LET s == score
    IN  IF s <= 3 THEN <<"Low", "green">>
        ELSE IF s <= 6 THEN <<"Medium", "yellow">>
        ELSE IF s <= 8 THEN <<"High", "orange">>
        ELSE <<"Extreme", "red">>

(***************************************************************************)
(* encode_month_day                                                        *)
(***************************************************************************)
\* Positions counted from 1.
Transform_from1(classes, label) ==
    IF \E i \in 1..Len(classes) : classes[i] = label
    THEN Ok(Num(100 * (CHOOSE i \in 1..Len(classes) : classes[i] = label)))
    ELSE Raise

\* LabelEncoder.transform([label])[0]: the position of the label in classes_
\* (from 0), ValueError on a label that was not seen in training.
Transform(classes, label) ==
    IF \E i \in 1..Len(classes) : classes[i] = label
    THEN Ok(Num(100 * ((CHOOSE i \in 1..Len(classes) : classes[i] = label) - 1)))
    ELSE Raise

\* One of the two branches of encode_month_day.
EncodeOne(classes, v) == IF IsStr(v) THEN Transform(classes, v.s) ELSE ToInt(v)

\* The pair, or the exception; with the collaborators it called.  The day is
\* not looked at when the month has raised.
encode_month_day(lm, ld, month, day) ==
    LET m == EncodeOne(lm, month)
        d == EncodeOne(ld, day)
        mc == IF IsStr(month) THEN <<"le_month.transform">> ELSE <<>>
        dc == IF IsStr(day) THEN <<"le_day.transform">> ELSE <<>>
    IN  IF ~m.ok THEN [ok |-> FALSE, month_enc |-> None, day_enc |-> None, calls |-> mc]
        ELSE IF ~d.ok THEN [ok |-> FALSE, month_enc |-> None, day_enc |-> None,
                            calls |-> mc \o dc]
        ELSE [ok |-> TRUE, month_enc |-> m.v, day_enc |-> d.v, calls |-> mc \o dc]

(***************************************************************************)
(* The trained model and the encoders                                      *)
(***************************************************************************)
ScoreSpan == 12

Keys == {"X", "Y", "month", "day", "FFMC", "DMC", "DC", "ISI",
         "temp", "RH", "wind", "rain"}

RECURSIVE SumN(_)
SumN(fs) == IF fs = <<>> THEN 0 ELSE Head(fs).n + SumN(Tail(fs))

\* model.predict([features])[0]: a fixed function of the feature vector, or
\* an exception.  The estimator checks the width of the row against the one
\* it was fitted on, and (unless it was fitted to take missing values)
\* refuses a NaN.  The prediction is a number of hundredths between -1.00
\* and ScoreSpan - 1, in steps of a half.
ModelPredict(m, features) ==
    IF m.n_features # Len(features) THEN Raise
    ELSE IF ~m.allow_nan /\ \E i \in 1..Len(features) : IsNaN(features[i]) THEN Raise
    ELSE Ok(Num(-100 + 50 * (((SumN(features) \div 10) + m.seed) % (2 * ScoreSpan + 1))))

(***************************************************************************)
(* predict                                                                 *)
(***************************************************************************)
UsedKeys == {"X", "Y", "month_enc", "day_enc", "FFMC", "DMC", "DC", "ISI",
             "temp", "RH", "wind", "rain"}

NoUsed == [k \in UsedKeys |-> Absent]

ErrResp(status, error) ==
    [kind |-> "error", status |-> status, error |-> error,
     score |-> 0, bucket |-> "", color |-> "", used |-> NoUsed]

\* An exception that leaves predict: the framework answers 500 with its own
\* page, nothing of the handler's.
Unhandled ==
    [kind |-> "unhandled", status |-> 500, error |-> "",
     score |-> 0, bucket |-> "", color |-> "", used |-> NoUsed]

OkResp(score, bc, used) ==
    [kind |-> "ok", status |-> 200, error |-> "",
     score |-> score, bucket |-> bc[1], color |-> bc[2], used |-> used]

InvalidJSON      == "Invalid JSON"
EncodingFailed   == "Month/day encoding failed"
MissingMeteo     == "Missing meteorological inputs for index estimation"
PredictionFailed == "Model prediction failed"

Out(r, c, f) == [resp |-> r, calls |-> c, features |-> f]

\* Lines 109-117: month and day as read, or both from the clock.
MonthDay(data, clock) ==
    LET month == Get(data, "month", None)
        day   == Get(data, "day", None)
    IN  IF IsNone(month) \/ IsNone(day)
        THEN [month |-> Str(clock.month), day |-> Str(clock.day)]
        ELSE [month |-> month, day |-> day]

\* Line 132: None in (ffmc, dmc, dc, isi).
NeedEstimate(ffmc, dmc, dc, isi) ==
    IsNone(ffmc) \/ IsNone(dmc) \/ IsNone(dc) \/ IsNone(isi)

\* Each index on its own: the caller's where given, the estimate elsewhere.
PerIndexOverride(given, est) ==
    [k \in {"FFMC", "DMC", "DC", "ISI"} |-> IF IsNone(given[k]) THEN est[k] ELSE given[k]]

\* Lines 127-142: the four indices that go on, given the four read from the
\* request and the estimate.
ChooseIndices(given, est) ==
    IF NeedEstimate(given.FFMC, given.DMC, given.DC, given.ISI) THEN est ELSE given

\* Lines 135-138: the four floats for the estimate, or the exception.
Meteo(data) ==
    LET temp == ToFloat(Get(data, "temp", None))
        rh   == ToFloat(Get(data, "RH", None))
        wind == ToFloat(Get(data, "wind", None))
        rain == ToFloat(Get(data, "rain", Num(0)))
    IN  IF temp.ok /\ rh.ok /\ wind.ok /\ rain.ok
        THEN [ok |-> TRUE, temp |-> temp.v, rh |-> rh.v, wind |-> wind.v, rain |-> rain.v]
        ELSE [ok |-> FALSE, temp |-> None, rh |-> None, wind |-> None, rain |-> None]

\* Lines 144-185, once the indices are known: the feature vector, the model
\* call, the bucket and the response.
Score(m, data, X_val, Y_val, enc, idx, c) ==
    LET temp_val == ToFloat(Get(data, "temp", Num(2000)))
        rh_val   == ToFloat(Get(data, "RH", Num(4000)))
        wind_val == ToFloat(Get(data, "wind", Num(100)))
        rain_val == ToFloat(Get(data, "rain", Num(0)))
        ffmc == ToFloat(idx.FFMC)
        dmc  == ToFloat(idx.DMC)
        dc   == ToFloat(idx.DC)
        isi  == ToFloat(idx.ISI)
        features == <<X_val, Y_val, enc.month_enc, enc.day_enc,
                      ffmc.v, dmc.v, dc.v, isi.v,
                      temp_val.v, rh_val.v, wind_val.v, rain_val.v>>
        p == ModelPredict(m, features)
        pred == IF p.ok THEN ToInt(p.v) ELSE Raise
        score == pred.v.n \div 100
        used == [X |-> X_val, Y |-> Y_val,
                 month_enc |-> enc.month_enc, day_enc |-> enc.day_enc,
                 FFMC |-> idx.FFMC, DMC |-> idx.DMC, DC |-> idx.DC, ISI |-> idx.ISI,
                 temp |-> temp_val.v, RH |-> rh_val.v,
                 wind |-> wind_val.v, rain |-> rain_val.v]
    IN  IF ~(temp_val.ok /\ rh_val.ok /\ wind_val.ok /\ rain_val.ok) THEN Out(Unhandled, c, <<>>)
        ELSE IF ~(ffmc.ok /\ dmc.ok /\ dc.ok /\ isi.ok) THEN Out(Unhandled, c, <<>>)
        ELSE IF ~pred.ok THEN Out(ErrResp(500, PredictionFailed), c \o <<"model.predict">>, features)
        ELSE Out(OkResp(score, score_to_bucket(score), used), c \o <<"model.predict">>, features)

\* Lines 126-142, then the rest.
Indices(m, data, X_val, Y_val, enc, c) ==
    LET given == [FFMC |-> Get(data, "FFMC", None), DMC |-> Get(data, "DMC", None),
                  DC   |-> Get(data, "DC", None),   ISI |-> Get(data, "ISI", None)]
        met == Meteo(data)
        est == estimate_fire_indexes(met.temp, met.rh, met.wind, met.rain)
    IN  IF NeedEstimate(given.FFMC, given.DMC, given.DC, given.ISI)
        THEN IF ~met.ok THEN Out(ErrResp(400, MissingMeteo), c, <<>>)
             ELSE Score(m, data, X_val, Y_val, enc, ChooseIndices(given, est),
                        c \o <<"estimate_fire_indexes">>)
        ELSE Score(m, data, X_val, Y_val, enc, ChooseIndices(given, est), c)

\* The whole handler: the response, the collaborators called and the row
\* given to the model.
predict(m, lm, ld, b, clock) ==
    LET data  == b.data
        X_val == ToInt(Get(data, "X", Num(500)))
        Y_val == ToInt(Get(data, "Y", Num(500)))
        md    == MonthDay(data, clock)
        enc   == encode_month_day(lm, ld, md.month, md.day)
    IN  IF b.kind = "invalid" THEN Out(ErrResp(400, InvalidJSON), <<>>, <<>>)
        ELSE IF b.kind # "object" THEN Out(Unhandled, <<>>, <<>>)
        ELSE IF ~X_val.ok \/ ~Y_val.ok THEN Out(Unhandled, <<>>, <<>>)
        ELSE IF ~enc.ok THEN Out(ErrResp(400, EncodingFailed), enc.calls, <<>>)
        ELSE Indices(m, data, X_val.v, Y_val.v, enc, enc.calls)

\* An encoder that learns the month label it is asked for.
ArtifactsAfter_fit(m, lm, ld, b) ==
    LET month == b.data.month
    IN  IF IsStr(month) /\ ~Transform(lm, month.s).ok
        THEN <<m, Append(lm, month.s), ld>>
        ELSE <<m, lm, ld>>

\* predict assigns to none of the three globals, and calls only predict and
\* transform on them.
ArtifactsAfter(m, lm, ld, b) == <<m, lm, ld>>

(***************************************************************************)
(* The artifacts a process can have loaded, the clock, the requests        *)
(***************************************************************************)
MonthsAll  == <<"apr", "aug", "dec", "feb", "jan", "jul", "jun", "mar", "may",
                "nov", "oct", "sep">>
MonthsSome == <<"aug", "jul", "sep">>
DaysAll    == <<"fri", "mon", "sat", "sun", "thu", "tue", "wed">>

\* A model fitted on the twelve features; one fitted to take missing values
\* with encoders trained on summer data only; one fitted on another width.
Artifacts ==
    { <<[n_features |-> 12, allow_nan |-> FALSE, seed |-> 0], MonthsAll, DaysAll>>,
      <<[n_features |-> 12, allow_nan |-> TRUE,  seed |-> 7], MonthsSome, DaysAll>>,
      <<[n_features |-> 11, allow_nan |-> FALSE, seed |-> 0], MonthsAll, DaysAll>> }

\* strftime("%b").lower() and strftime("%a").lower() of utcnow().
Clocks == { [month |-> "nov", day |-> "wed"], [month |-> "aug", day |-> "fri"] }

NoData == [k \in Keys |-> Absent]

Object(data) == [kind |-> "object", data |-> data]
\* A body that is no JSON, and one that is JSON but no object (null, [1]).
Invalid   == [kind |-> "invalid", data |-> NoData]
NonObject == [kind |-> "nonobject", data |-> NoData]
Idle      == [kind |-> "idle", data |-> NoData]

\* The request bodies of the single-request specification: every combination
\* of these values of the twelve fields.
Datas ==
    [X     : {Absent, Num(400), Str("abc")},
     Y     : {Absent, Num(570)},
     month : {Absent, Str("aug"), Str("xyz"), Num(700), Num(9900)},
     day   : {Absent, Str("sun"), Str("xyz"), Num(9900)},
     FFMC  : {Absent, Num(8500), Num(100000)},
     DMC   : {Absent, Num(5000)},
     DC    : {None, Num(30000)},
     ISI   : {Num(1000)},
     temp  : {Absent, None, Num(3310), Str("nan")},
     RH    : {Absent, Num(2000)},
     wind  : {Num(670)},
     rain  : {Absent, None, Num(0), Str("abc")}]

Bodies == {Invalid, NonObject} \cup {Object(d) : d \in Datas}

NoResp ==
    [kind |-> "none", status |-> 0, error |-> "",
     score |-> 0, bucket |-> "", color |-> "", used |-> NoUsed]

NoFirst ==
    [kind |-> "none", body |-> Idle, now |-> [month |-> "", day |-> ""], resp |-> NoResp,
     model |-> [n_features |-> 0, allow_nan |-> FALSE, seed |-> 0],
     le_month |-> <<>>, le_day |-> <<>>, between |-> {}]

NoArg == [temp |-> None, rh |-> None, wind |-> None, rain |-> None]
NoRet == [FFMC |-> None, DMC |-> None, DC |-> None, ISI |-> None]

(***************************************************************************)
(* Actions                                                                 *)
(***************************************************************************)
\* predict handles the request with body b at clock c.
Serve(b, c) ==
    LET out == predict(model, le_month, le_day, b, c)
        art == ArtifactsAfter(model, le_month, le_day, b)
    IN  /\ body' = b
        /\ now' = c
        /\ resp' = out.resp
        /\ calls' = out.calls
        /\ model_in' = out.features
        /\ model' = art[1]
        /\ le_month' = art[2]
        /\ le_day' = art[3]

\* Single-request specification: the process has loaded its artifacts, a
\* request is at the door, predict handles it.
Init ==
    /\ \E a \in Artifacts : model = a[1] /\ le_month = a[2] /\ le_day = a[3]
    /\ body \in Bodies
    /\ now \in Clocks
    /\ resp = NoResp
    /\ calls = <<>>
    /\ model_in = <<>>
    /\ first = NoFirst
    /\ arg = NoArg
    /\ ret = NoRet

Predict ==
    /\ resp.kind = "none"
    /\ Serve(body, now)
    /\ UNCHANGED <<first, arg, ret>>

Next == Predict

Spec == Init /\ [][Next]_vars

(***************************************************************************)
(* Sequences of requests                                                   *)
(***************************************************************************)
Weather == [NoData EXCEPT !.temp = Num(3310), !.RH = Num(2000),
                          !.wind = Num(670), !.rain = Num(0)]

SeqBodies ==
    { Invalid,
      Object(NoData),
      Object(Weather),
      Object([Weather EXCEPT !.X = Num(400), !.Y = Num(500),
                             !.month = Str("aug"), !.day = Str("sun")]),
      Object([NoData EXCEPT !.FFMC = Num(8500), !.DMC = Num(5000),
                            !.DC = Num(30000), !.ISI = Num(1000)]),
      Object([Weather EXCEPT !.month = Str("xyz"), !.day = Str("sun")]),
      Object([Weather EXCEPT !.month = Str("nov"), !.day = Str("sun")]),
      Object([Weather EXCEPT !.month = Num(9900), !.day = Num(9900)]),
      Object([Weather EXCEPT !.X = Str("abc")]),
      Object([Weather EXCEPT !.temp = Str("nan")]) }

InitSeq ==
    /\ \E a \in Artifacts : model = a[1] /\ le_month = a[2] /\ le_day = a[3]
    /\ body = Idle
    /\ now \in Clocks
    /\ resp = NoResp
    /\ calls = <<>>
    /\ model_in = <<>>
    /\ first = NoFirst
    /\ arg = NoArg
    /\ ret = NoRet

\* One more request is handled.  The run may remember it (once), with the
\* artifacts it was handled under; after that it notes the kinds of response
\* given since.
PredictSeq ==
    \E b \in SeqBodies, c \in Clocks :
        /\ Serve(b, c)
        /\ \/ /\ first.kind = "none"
              /\ UNCHANGED first
           \/ /\ first.kind = "none"
              /\ first' = [kind |-> "some", body |-> b, now |-> c, resp |-> resp',
                           model |-> model, le_month |-> le_month, le_day |-> le_day,
                           between |-> {}]
           \/ /\ first.kind = "some"
              /\ first' = [first EXCEPT !.between = @ \cup {resp'.kind}]
        /\ UNCHANGED <<arg, ret>>

NextSeq == PredictSeq

SpecSeq == InitSeq /\ [][NextSeq]_vars

(***************************************************************************)
(* estimate_fire_indexes called directly                                   *)
(***************************************************************************)
EstArgs ==
    [temp : {NaN, Num(-5000), Num(-1000), Num(0), Num(3310), Num(6000), Num(9990)},
     rh   : {Num(-100), Num(0), Num(2000), Num(10000), Num(15000)},
     wind : {Num(-100), Num(0), Num(670), Num(5000), Num(9000)},
     rain : {Num(-100), Num(0), Num(120), Num(50000), Num(60000)}]

InitEst ==
    /\ \E a \in Artifacts : model = a[1] /\ le_month = a[2] /\ le_day = a[3]
    /\ body = Idle
    /\ now \in Clocks
    /\ resp = NoResp
    /\ calls = <<>>
    /\ model_in = <<>>
    /\ first = NoFirst
    /\ arg \in EstArgs
    /\ ret = NoRet

Estimate ==
    /\ ret = NoRet
    /\ ret' = estimate_fire_indexes(arg.temp, arg.rh, arg.wind, arg.rain)
    /\ UNCHANGED <<model, le_month, le_day, body, now, resp, calls, model_in, first, arg>>

NextEst == Estimate

SpecEst == InitEst /\ [][NextEst]_vars

(***************************************************************************)
(* Properties                                                              *)
(***************************************************************************)
Index == {"FFMC", "DMC", "DC", "ISI"}

Handled == resp.kind # "none"

Called(name) == \E i \in 1..Len(calls) : calls[i] = name

NCalls(name) == Cardinality({i \in 1..Len(calls) : calls[i] = name})

\* The field is in the request with a value other than null.
Supplied(k) == body.data[k].t \notin {"absent", "null"}

AllFourSupplied == \A k \in Index : Supplied(k)

\* The estimate for the request's own temp, RH, wind and rain (rain 0.0 when
\* the request has none).
OwnEstimate ==
    estimate_fire_indexes(ToFloat(body.data.temp).v, ToFloat(body.data.RH).v,
                          ToFloat(body.data.wind).v,
                          ToFloat(Get(body.data, "rain", Num(0))).v)

\* Position of each index in the feature vector.
Pos == [FFMC |-> 5, DMC |-> 6, DC |-> 7, ISI |-> 8]

\* C1: in a request that predict scores, the four indices in the feature
\* vector and in features_used are the caller's own values when all four were
\* supplied, and estimate_fire_indexes is then not called at all; when at
\* least one is missing, all four (those supplied too) are the estimate for
\* the request's temp, RH, wind and rain.
C1_IndexGate ==
    /\ Handled /\ AllFourSupplied => ~Called("estimate_fire_indexes")
    /\ resp.kind = "ok" =>
         IF AllFourSupplied
         THEN \A k \in Index : /\ resp.used[k] = body.data[k]
                               /\ model_in[Pos[k]] = body.data[k]
         ELSE /\ Called("estimate_fire_indexes")
              /\ \A k \in Index : /\ resp.used[k] = OwnEstimate[k]
                                  /\ model_in[Pos[k]] = OwnEstimate[k]

\* A scored request that supplied FFMC but not all four: its FFMC was
\* replaced by the estimate.
C1_Witness ==
    /\ resp.kind = "ok"
    /\ Supplied("FFMC") /\ ~AllFourSupplied
    /\ Called("estimate_fire_indexes")
    /\ resp.used.FFMC # body.data.FFMC
    /\ resp.used.FFMC = OwnEstimate.FFMC

\* The ladder as the claim words it.
Ladder(s) ==
    CASE s <= 3            -> <<"Low", "green">>
      [] s >= 4 /\ s <= 6  -> <<"Medium", "yellow">>
      [] s >= 7 /\ s <= 8  -> <<"High", "orange">>
      [] s >= 9            -> <<"Extreme", "red">>

Rank(b) == CASE b = "Low" -> 0 [] b = "Medium" -> 1 [] b = "High" -> 2 [] b = "Extreme" -> 3

ScoreDomain == (0 - 2 * ScoreSpan) .. (2 * ScoreSpan)

\* score_to_bucket on every integer of ScoreDomain is the ladder.
TotalLadder == \A s \in ScoreDomain : score_to_bucket(s) = Ladder(s)

\* A higher score never has a lower bucket.
Monotonic ==
    \A s1, s2 \in ScoreDomain :
        s1 < s2 => Rank(score_to_bucket(s1)[1]) <= Rank(score_to_bucket(s2)[1])

\* C2: score_to_bucket gives every integer, those under 1 and over 10 too,
\* the pair of the ladder (<= 3 Low/green, 4..6 Medium/yellow, 7..8
\* High/orange, >= 9 Extreme/red); it is monotonic in the score; and the
\* bucket and colour of a prediction are the pair of its score.
C2_BucketLadder ==
    /\ TotalLadder
    /\ Monotonic
    /\ resp.kind = "ok" => <<resp.bucket, resp.color>> = Ladder(resp.score)

\* A prediction on a boundary of the ladder.
C2_Witness ==
    /\ resp.kind = "ok"
    /\ resp.score = 3
    /\ resp.bucket = "Low"

\* C3: every handled request ends in a success response or in a failure
\* response of the handler; no exception leaves predict.  Stated for the
\* requests the claim spells out, those whose body is a JSON object, so that
\* a violation shows a field that could not be coerced.
C3_NoErrorEscapes ==
    Handled /\ body.kind = "object" => resp.kind \in {"ok", "error"}

\* The request got as far as line 126: a JSON object whose X and Y were
\* coerced and whose month and day were encoded.
GateReached ==
    /\ Handled
    /\ body.kind = "object"
    /\ ToInt(Get(body.data, "X", Num(500))).ok
    /\ ToInt(Get(body.data, "Y", Num(500))).ok
    /\ resp.error # EncodingFailed

Usable(k) == ToFloat(body.data[k]).ok

\* C4: with an index missing, a request without temp, RH or wind gets the
\* missing-meteorology failure and no model call; and rain never causes that
\* failure: with temp, RH and wind usable the request goes on to the
\* estimate, whatever it has for rain.
C4_RainNeverCauses ==
    GateReached /\ ~AllFourSupplied =>
        /\ (~Supplied("temp") \/ ~Supplied("RH") \/ ~Supplied("wind")) =>
               resp.error = MissingMeteo /\ ~Called("model.predict")
        /\ (Usable("temp") /\ Usable("RH") /\ Usable("wind")) =>
               Called("estimate_fire_indexes") /\ resp.error # MissingMeteo

\* A text label the encoder does not know.
UnknownLabel(classes, v) == IsStr(v) /\ ~Transform(classes, v.s).ok

\* C5: a request whose month or day is a text label outside the encoder's
\* vocabulary gets the month/day-encoding failure and no model call; the
\* model is called at most once per request and only after the encoding.
C5_UnknownLabelFails ==
    /\ NCalls("model.predict") <= 1
    /\ \A i \in 1..Len(calls) : calls[i] = "model.predict" => i = Len(calls)
    /\ Called("model.predict") => resp.error # EncodingFailed
    /\ ( /\ Handled /\ body.kind = "object"
         /\ ToInt(Get(body.data, "X", Num(500))).ok
         /\ ToInt(Get(body.data, "Y", Num(500))).ok
         /\ \/ UnknownLabel(le_month, body.data.month)
            \/ UnknownLabel(le_day, body.data.day) )
       => resp.error = EncodingFailed /\ ~Called("model.predict")

InRange(v, lo, hi) == v.t = "num" /\ lo <= v.n /\ v.n <= hi

\* C6: in every request that reaches model.predict, each index feature is
\* within its range, supplied or estimated.
C6_IndicesInRange ==
    Called("model.predict") =>
        /\ InRange(model_in[5], FFMC_MIN, FFMC_MAX)
        /\ InRange(model_in[6], DMC_MIN, DMC_MAX)
        /\ InRange(model_in[7], DC_MIN, DC_MAX)
        /\ InRange(model_in[8], ISI_MIN, ISI_MAX)

InVocabulary(v, classes) == InRange(v, 0, 100 * (Len(classes) - 1))

\* C7 as stated: in every request that reaches model.predict the encoded
\* month and day are within 0 .. vocabulary size - 1 (an integer from the
\* caller that is not gets a failure response).
C7_EncodedInVocabulary ==
    Called("model.predict") =>
        /\ InVocabulary(model_in[3], le_month)
        /\ InVocabulary(model_in[4], le_day)

\* The month and day that are encoded (the request's, or the clock's).
Encoded == MonthDay(body.data, now)

\* C7: in every request that reaches model.predict, a month or day that was
\* encoded from text is within 0 .. vocabulary size - 1; one that was not
\* text is int() of the caller's value, whatever its size.
C7_TextInVocabulary ==
    Called("model.predict") =>
        /\ IF IsStr(Encoded.month)
           THEN InVocabulary(model_in[3], le_month)
           ELSE model_in[3] = ToInt(body.data.month).v
        /\ IF IsStr(Encoded.day)
           THEN InVocabulary(model_in[4], le_day)
           ELSE model_in[4] = ToInt(body.data.day).v

\* The model was called with the caller's integer 99 as the month, outside
\* the vocabulary, and with a day taken from text.
C7_Witness ==
    /\ Called("model.predict")
    /\ body.data.month = Num(9900) /\ model_in[3] = Num(9900)
    /\ ~InVocabulary(model_in[3], le_month)
    /\ IsStr(Encoded.day) /\ InVocabulary(model_in[4], le_day)

\* The arguments clamped to the input ranges.
Clamped(a) ==
    [temp |-> Clip(a.temp, TEMP_MIN, TEMP_MAX), rh |-> Clip(a.rh, RH_MIN, RH_MAX),
     wind |-> Clip(a.wind, WIND_MIN, WIND_MAX), rain |-> Clip(a.rain, RAIN_MIN, RAIN_MAX)]

\* C8: for every input, estimate_fire_indexes returns FFMC, DMC, DC and ISI
\* each within its range, and returns for an input what it returns for the
\* input clamped to the input ranges.
C8_EstimateInRange ==
    ret # NoRet =>
        /\ InRange(ret.FFMC, FFMC_MIN, FFMC_MAX)
        /\ InRange(ret.DMC, DMC_MIN, DMC_MAX)
        /\ InRange(ret.DC, DC_MIN, DC_MAX)
        /\ InRange(ret.ISI, ISI_MIN, ISI_MAX)
        /\ ret = estimate_fire_indexes(Clamped(arg).temp, Clamped(arg).rh,
                                       Clamped(arg).wind, Clamped(arg).rain)

\* C9: in a scored request, a month that was supplied is the month that is
\* encoded, and a day that was supplied is the day that is encoded; the
\* clock stands in only for the field that is missing.
C9_IndependentDefaults ==
    resp.kind = "ok" =>
        /\ resp.used.month_enc =
             IF Supplied("month") THEN EncodeOne(le_month, body.data.month).v
             ELSE Transform(le_month, now.month).v
        /\ resp.used.day_enc =
             IF Supplied("day") THEN EncodeOne(le_day, body.data.day).v
             ELSE Transform(le_day, now.day).v

\* C10: handling requests, failed ones too, leaves the model and the two
\* encoders as they were, and a request gets the response the same request
\* got earlier in the run at the same clock value, whatever came between.
C10_Independent ==
    first.kind = "some" =>
        /\ model = first.model /\ le_month = first.le_month /\ le_day = first.le_day
        /\ (body = first.body /\ now = first.now) => resp = first.resp

\* A request that was scored, then requests that were scored, that failed
\* and that raised, and then the first request again with the same response.
C10_Witness ==
    /\ first.kind = "some"
    /\ first.resp.kind = "ok"
    /\ first.between = {"ok", "error", "unhandled"}
    /\ body = first.body /\ now = first.now
    /\ resp = first.resp

=============================================================================
